---------------------------- MODULE Spec2Model ----------------------------
(***************************************************************************)
(* Model of backend/main.py: the registry of room agents                   *)
(* (running_agents, attach_transcriber, run_agent_for_room / room_task),   *)
(* the track transcriber (handle_audio_track) and the transcript bus       *)
(* (transcript_queues, event_generator).                                   *)
(*                                                                         *)
(* The program runs on one asyncio event loop: code between two            *)
(* suspension points runs without interleaving, so every action below is   *)
(* the code from one suspension point to the next.                         *)
(***************************************************************************)
EXTENDS Integers, Sequences, FiniteSets, TLC

(***************************************************************************)
(* Bounds of the model.                                                    *)
(***************************************************************************)
MaxReqs == 2
MaxTracks == 1
MaxRoomTracks == 2
MaxSubs == 2
MaxEvents == 2
MaxFrames == 2

(***************************************************************************)
(* Values.                                                                 *)
(***************************************************************************)
Rooms == {"r1", "r2"}

\* body.get("roomId") of a body without the key
None == "None"

\* the values body.get("roomId") is drawn from
Bodies == Rooms \cup {"", None}

Idents == {"u1", "u2"}

CONN_DISCONNECTED == "CONN_DISCONNECTED"
CONN_CONNECTED == "CONN_CONNECTED"
CONN_RECONNECTING == "CONN_RECONNECTING"

INTERIM_TRANSCRIPT == "INTERIM_TRANSCRIPT"
FINAL_TRANSCRIPT == "FINAL_TRANSCRIPT"

EventTypes == {INTERIM_TRANSCRIPT, FINAL_TRANSCRIPT}

Texts == {"", "hello"}

\* the audio frames a track delivers
Frames == {"f1", "f2"}

\* the call stream.end_input(), in the record of the calls made on a stream
END_INPUT == "end_input"

VARIABLES
    running_agents,     \* dict room_id -> task (index into agent)
    agent,              \* the room tasks ever created, in creation order
    req,                \* the /attach-transcriber requests, in arrival order
    tr,                 \* the handle_audio_track tasks ever created
    transcript_queues,  \* dict roomId -> list of queues (index into sub)
    sub,                \* the event_generator instances ever started
    log,                \* the messages logged at line 255, in order
    event               \* the STT event the loop of line 229 ran for last,
                        \* and the track whose loop it was

vars == <<running_agents, agent, req, tr, transcript_queues, sub, log, event>>

(***************************************************************************)
(* Helpers.                                                                *)
(***************************************************************************)
Range(s) == {s[i] : i \in DOMAIN s}

Count(x, s) == Cardinality({i \in DOMAIN s : s[i] = x})

\* Python truthiness, mutated: only None is false
TruthyUnlessNone(x) == x # None

\* Python truthiness of a str-or-None value
Truthy(x) == x # "" /\ x # None

\* dict with key k set to v
DictSet(d, k, v) == [x \in DOMAIN d \cup {k} |-> IF x = k THEN v ELSE d[x]]

\* dict with key k deleted
DictDel(d, k) == [x \in DOMAIN d \ {k} |-> d[x]]

\* list.remove(x): the list without the first occurrence of x
RECURSIVE ListRemove(_, _)
ListRemove(s, x) ==
    IF s = <<>> THEN <<>>
    ELSE IF Head(s) = x THEN Tail(s)
    ELSE <<Head(s)>> \o ListRemove(Tail(s), x)

\* the order in which room.remote_participants iterates
IdentOrder == <<"u1", "u2">>

(***************************************************************************)
(* The participants of the transport: identity, name (the display-name     *)
(* hint, "" or None when the transport supplies none) and metadata.        *)
(***************************************************************************)
MetaAnn == "{\"displayName\":\"Ann\"}"
MetaMalformed == "{oops"
MetaEmptyName == "{\"displayName\":\"\"}"
MetaNullName == "{\"displayName\":null}"
MetaString == "\"displayName\""
MetaList == "[\"displayName\"]"
MetaNumber == "7"

\* the values of participant.name and of participant.metadata
Hints == <<None, "", "Bob">>

Metas ==
    <<None, "", MetaMalformed, "{}", MetaAnn, MetaEmptyName, MetaNullName,
      MetaString, MetaList, MetaNumber>>

\* one identity for every pair of a name and a metadata
ParticipantIds ==
    <<"p01", "p02", "p03", "p04", "p05", "p06",
      "p07", "p08", "p09", "p10", "p11", "p12",
      "p13", "p14", "p15", "p16", "p17", "p18",
      "p19", "p20", "p21", "p22", "p23", "p24",
      "p25", "p26", "p27", "p28", "p29", "p30">>

IndexOf(u) == CHOOSE i \in DOMAIN ParticipantIds : ParticipantIds[i] = u

Participant(u) ==
    IF u \in Range(ParticipantIds)
    THEN [identity |-> u,
          name |-> Hints[((IndexOf(u) - 1) % Len(Hints)) + 1],
          metadata |-> Metas[((IndexOf(u) - 1) \div Len(Hints)) + 1]]
    ELSE IF u = "u1"
    THEN [identity |-> "u1", name |-> "", metadata |-> MetaAnn]
    ELSE [identity |-> u, name |-> "Bob", metadata |-> MetaMalformed]

\* json.loads on the metadata strings of the model: ok is FALSE when it
\* raises, kind is the Python type of the value
JsonLoads(s) ==
    IF s = MetaAnn
    THEN [ok |-> TRUE, kind |-> "dict", value |-> [displayName |-> "Ann"]]
    ELSE IF s = MetaEmptyName
    THEN [ok |-> TRUE, kind |-> "dict", value |-> [displayName |-> ""]]
    ELSE IF s = MetaNullName
    THEN [ok |-> TRUE, kind |-> "dict", value |-> [displayName |-> None]]
    ELSE IF s = "{}" THEN [ok |-> TRUE, kind |-> "dict", value |-> <<>>]
    ELSE IF s = MetaString
    THEN [ok |-> TRUE, kind |-> "str", value |-> "displayName"]
    ELSE IF s = MetaList
    THEN [ok |-> TRUE, kind |-> "list", value |-> <<"displayName">>]
    ELSE IF s = MetaNumber THEN [ok |-> TRUE, kind |-> "int", value |-> 7]
    ELSE [ok |-> FALSE, kind |-> None, value |-> <<>>]

\* line 238: "displayName" in md, for the values of the model: a key of the
\* dict, a substring of the str, an element of the list; TypeError (raised)
\* for a number
Contains(md) ==
    IF md.kind = "dict"
    THEN [raised |-> FALSE, result |-> "displayName" \in DOMAIN md.value]
    ELSE IF md.kind = "str"
    THEN [raised |-> FALSE, result |-> md.value = "displayName"]
    ELSE IF md.kind = "list"
    THEN [raised |-> FALSE, result |-> "displayName" \in Range(md.value)]
    ELSE [raised |-> TRUE, result |-> FALSE]

\* lines 237-239, the body of the try: json.loads raises on malformed text,
\* the membership test on a number, the subscript on a str or a list; name
\* is assigned only when nothing is raised
TryBody(metadata, name) ==
    LET md == JsonLoads(metadata) IN
    IF ~md.ok \/ Contains(md).raised THEN [raised |-> TRUE, name |-> name]
    ELSE IF ~Contains(md).result THEN [raised |-> FALSE, name |-> name]
    ELSE IF md.kind = "dict"
    THEN [raised |-> FALSE, name |-> md.value["displayName"]]
    ELSE [raised |-> TRUE, name |-> name]

\* lines 240-241, mutated: the exception is not caught
ExceptReraise(r) == r

\* lines 240-241: except: pass
ExceptPass(r) == [r EXCEPT !.raised = FALSE]

\* lines 234-241: name or identity, overridden by the metadata's
\* displayName; raised tells whether an exception leaves these lines
Resolve(p) ==
    LET name == IF Truthy(p.name) THEN p.name ELSE p.identity
    IN IF Truthy(p.metadata)
       THEN ExceptPass(TryBody(p.metadata, name))
       ELSE [raised |-> FALSE, name |-> name]

\* lines 234-241: the name given to the message
ResolveName(p) == Resolve(p).name

(***************************************************************************)
(* The agent registry and the room task.                                   *)
(***************************************************************************)

\* line 268, mutated: the membership test forgotten
InRegistryNever(ra, room_id) == FALSE

\* line 268: room_id in running_agents
InRegistry(ra, room_id) == room_id \in DOMAIN ra

\* lines 210-211, mutated: the entry is left behind
UnregisterForgotten(ra, room_id) == ra

\* lines 210-211, mutated: the registry is cleared
UnregisterAll(ra, room_id) == <<>>

\* lines 210-211: if room_id in running_agents: del running_agents[room_id]
Unregister(ra, room_id) ==
    IF room_id \in DOMAIN ra THEN DictDel(ra, room_id) ELSE ra

\* line 203, mutated: the loop never looks at the connection
LoopCondAlways(conn) == TRUE

\* line 203: room.connection_state == CONN_CONNECTED
LoopCond(conn) == conn = CONN_CONNECTED

\* line 198, mutated: the number of participants is not looked at
RoomEmptyAlways(parts) == TRUE

\* line 198: len(room.remote_participants) == 0
RoomEmpty(parts) == Cardinality(parts) = 0

\* lines 167, 213: the Room and the task created for room_id; the task waits
\* in room.connect (line 179) once it runs
NewAgent(room_id) ==
    [room_id |-> room_id,
     pc |-> "connect",
     conn |-> CONN_DISCONNECTED,
     parts |-> {},
     hooked |-> FALSE,
     disc |-> "none"]

\* lines 217-229: a handle_audio_track task, waiting on its STT stream
\* (pc), with its feed_audio task waiting for the first frame (feed); audio
\* is what the AudioStream has yielded, calls the calls made on the STT
\* stream (a frame stands for push_frame of it); stt is the plugin it was
\* given, named by the room task that made it at line 183
NewTrack(room_id, u, stt) ==
    [room_id |-> room_id, participant |-> u, stt |-> stt, pc |-> "drain",
     feed |-> "feed", audio |-> <<>>, calls |-> <<>>]

\* the plugin of a handle_audio_track call that no room task made
NoTask == 0

\* lines 191-194: one handle_audio_track task per existing audio track
SpawnTracks(room_id, audio, stt) ==
    LET us == SelectSeq(IdentOrder, LAMBDA u : u \in audio)
    IN [i \in 1..Len(us) |-> NewTrack(room_id, us[i], stt)]

\* no event has been yielded yet
NoEvent == [track |-> 0, type |-> None, text |-> ""]

Init ==
    /\ running_agents = <<>>
    /\ agent = <<>>
    /\ req = <<>>
    /\ tr = <<>>
    /\ transcript_queues = <<>>
    /\ sub = <<>>
    /\ log = <<>>
    /\ event = NoEvent

\* a POST /attach-transcriber request arrives; its handler is scheduled
Receive(b) ==
    /\ Len(req) < MaxReqs
    /\ req' = Append(req, [body |-> b, status |-> "pending"])
    /\ UNCHANGED <<running_agents, agent, tr, transcript_queues, sub, log, event>>

\* lines 263-272 with run_agent_for_room (159-215) inlined: awaiting
\* run_agent_for_room never suspends, so the handler is one step
AttachTranscriber(c) ==
    /\ c \in DOMAIN req
    /\ req[c].status = "pending"
    /\ LET room_id == req[c].body IN
       IF ~Truthy(room_id)
       THEN /\ req' = [req EXCEPT ![c].status = "roomId required"]
            /\ UNCHANGED <<running_agents, agent>>
       ELSE IF InRegistry(running_agents, room_id)
       THEN /\ req' = [req EXCEPT ![c].status = "already_running"]
            /\ UNCHANGED <<running_agents, agent>>
       ELSE /\ agent' = Append(agent, NewAgent(room_id))
            /\ running_agents' = DictSet(running_agents, room_id, Len(agent) + 1)
            /\ req' = [req EXCEPT ![c].status = "started"]
    /\ UNCHANGED <<tr, transcript_queues, sub, log, event>>

\* lines 179-204: room.connect returns; the handlers are registered, the
\* tracks of the participants already present are handled, and the task
\* enters the keep-alive loop
RoomConnect(t, present, audio) ==
    /\ t \in DOMAIN agent
    /\ agent[t].pc = "connect"
    /\ audio \subseteq present
    /\ Len(tr) + Cardinality(audio) <= MaxRoomTracks
    /\ agent' = [agent EXCEPT ![t].pc = "sleep", ![t].conn = CONN_CONNECTED,
                              ![t].parts = present, ![t].hooked = TRUE]
    /\ tr' = tr \o SpawnTracks(agent[t].room_id, audio, t)
    /\ UNCHANGED <<running_agents, req, transcript_queues, sub, log, event>>

\* lines 179, 206-209: room.connect raises; the task logs and waits in the
\* room.disconnect of its finally block
ConnectFail(t) ==
    /\ t \in DOMAIN agent
    /\ agent[t].pc = "connect"
    /\ agent' = [agent EXCEPT ![t].pc = "finally"]
    /\ UNCHANGED <<running_agents, req, tr, transcript_queues, sub, log, event>>

\* lines 179-183, 206-209: room.connect returns and get_stt_plugin raises:
\* the room is connected, no handler is registered and remote_participants
\* (read at lines 191 and 198 only) is never read
SetupFail(t) ==
    /\ t \in DOMAIN agent
    /\ agent[t].pc = "connect"
    /\ agent' = [agent EXCEPT ![t].pc = "finally", ![t].conn = CONN_CONNECTED]
    /\ UNCHANGED <<running_agents, req, tr, transcript_queues, sub, log, event>>

\* lines 185-188: track_subscribed for an audio track of participant u
TrackSubscribed(t, u) ==
    /\ t \in DOMAIN agent
    /\ agent[t].hooked
    /\ agent[t].conn = CONN_CONNECTED
    /\ u \in agent[t].parts
    /\ Len(tr) < MaxRoomTracks
    /\ tr' = Append(tr, NewTrack(agent[t].room_id, u, t))
    /\ UNCHANGED <<running_agents, agent, req, transcript_queues, sub, log, event>>

\* a participant joins the connected room (no handler in the program)
ParticipantConnected(t, u) ==
    /\ t \in DOMAIN agent
    /\ agent[t].hooked
    /\ agent[t].conn = CONN_CONNECTED
    /\ u \notin agent[t].parts
    /\ agent' = [agent EXCEPT ![t].parts = @ \cup {u}]
    /\ UNCHANGED <<running_agents, req, tr, transcript_queues, sub, log, event>>

\* lines 196-200: a participant leaves; the transport removes it from
\* remote_participants and then calls the handler
ParticipantDisconnected(t, u) ==
    /\ t \in DOMAIN agent
    /\ agent[t].hooked
    /\ agent[t].conn = CONN_CONNECTED
    /\ u \in agent[t].parts
    /\ LET left == agent[t].parts \ {u} IN
       agent' = [agent EXCEPT ![t].parts = left,
                              ![t].disc = IF RoomEmpty(left) THEN "pending" ELSE @]
    /\ UNCHANGED <<running_agents, req, tr, transcript_queues, sub, log, event>>

\* line 200: the task created for room.disconnect() completes.  A room that
\* is disconnected has no remote participants left.
DisconnectTask(t) ==
    /\ t \in DOMAIN agent
    /\ agent[t].disc = "pending"
    /\ agent' = [agent EXCEPT ![t].disc = "done", ![t].conn = CONN_DISCONNECTED,
                              ![t].parts = {}]
    /\ UNCHANGED <<running_agents, req, tr, transcript_queues, sub, log, event>>

\* the transport loses the connection: closed by the server, or reconnecting
ConnectionLost(t, state) ==
    /\ t \in DOMAIN agent
    /\ agent[t].conn = CONN_CONNECTED
    /\ state \in {CONN_DISCONNECTED, CONN_RECONNECTING}
    /\ agent' = [agent EXCEPT
                    ![t].conn = state,
                    ![t].parts = IF state = CONN_DISCONNECTED THEN {} ELSE @]
    /\ UNCHANGED <<running_agents, req, tr, transcript_queues, sub, log, event>>

\* the transport re-establishes the connection
Reconnected(t) ==
    /\ t \in DOMAIN agent
    /\ agent[t].conn = CONN_RECONNECTING
    /\ agent' = [agent EXCEPT ![t].conn = CONN_CONNECTED]
    /\ UNCHANGED <<running_agents, req, tr, transcript_queues, sub, log, event>>

\* lines 203-204, 208-209: the sleep ends and the loop condition is false;
\* the task waits in the room.disconnect of its finally block.  (While the
\* condition is true the task sleeps again: no change of state.)
KeepAliveExit(t) ==
    /\ t \in DOMAIN agent
    /\ agent[t].pc = "sleep"
    /\ ~LoopCond(agent[t].conn)
    /\ agent' = [agent EXCEPT ![t].pc = "finally"]
    /\ UNCHANGED <<running_agents, req, tr, transcript_queues, sub, log, event>>

\* lines 209-211: room.disconnect returns, the entry is deleted, the task ends
Finally(t) ==
    /\ t \in DOMAIN agent
    /\ agent[t].pc = "finally"
    /\ agent' = [agent EXCEPT ![t].pc = "done", ![t].conn = CONN_DISCONNECTED,
                              ![t].parts = {}]
    /\ running_agents' = Unregister(running_agents, agent[t].room_id)
    /\ UNCHANGED <<req, tr, transcript_queues, sub, log, event>>

\* every task is created by a request
Tasks == 1..MaxReqs

Next ==
    \/ \E b \in Bodies : Receive(b)
    \/ \E c \in 1..MaxReqs : AttachTranscriber(c)
    \/ \E t \in Tasks, present \in SUBSET Idents, audio \in SUBSET Idents :
          RoomConnect(t, present, audio)
    \/ \E t \in Tasks : ConnectFail(t)
    \/ \E t \in Tasks : SetupFail(t)
    \/ \E t \in Tasks, u \in Idents : TrackSubscribed(t, u)
    \/ \E t \in Tasks, u \in Idents : ParticipantConnected(t, u)
    \/ \E t \in Tasks, u \in Idents : ParticipantDisconnected(t, u)
    \/ \E t \in Tasks : DisconnectTask(t)
    \/ \E t \in Tasks, state \in {CONN_DISCONNECTED, CONN_RECONNECTING} :
          ConnectionLost(t, state)
    \/ \E t \in Tasks : Reconnected(t)
    \/ \E t \in Tasks : KeepAliveExit(t)
    \/ \E t \in Tasks : Finally(t)

Spec == Init /\ [][Next]_vars

\* the registry and the agents of rooms whose participants publish no audio
\* (spawning a track transcriber changes tr only, which no action of the
\* registry or of the room task reads)
NextRegistry ==
    \/ \E b \in Bodies : Receive(b)
    \/ \E c \in 1..MaxReqs : AttachTranscriber(c)
    \/ \E t \in Tasks, present \in SUBSET Idents : RoomConnect(t, present, {})
    \/ \E t \in Tasks : ConnectFail(t)
    \/ \E t \in Tasks : SetupFail(t)
    \/ \E t \in Tasks, u \in Idents : ParticipantConnected(t, u)
    \/ \E t \in Tasks, u \in Idents : ParticipantDisconnected(t, u)
    \/ \E t \in Tasks : DisconnectTask(t)
    \/ \E t \in Tasks, state \in {CONN_DISCONNECTED, CONN_RECONNECTING} :
          ConnectionLost(t, state)
    \/ \E t \in Tasks : Reconnected(t)
    \/ \E t \in Tasks : KeepAliveExit(t)
    \/ \E t \in Tasks : Finally(t)

SpecRegistry == Init /\ [][NextRegistry]_vars

\* the event loop runs every task that is ready: a disconnect that was
\* scheduled completes, a sleep ends, a finally block runs to its end
LiveSpec ==
    /\ SpecRegistry
    /\ \A t \in Tasks : WF_vars(DisconnectTask(t))
    /\ \A t \in Tasks : WF_vars(KeepAliveExit(t))
    /\ \A t \in Tasks : WF_vars(Finally(t))

(***************************************************************************)
(* Claims about the registry and the room task.                            *)
(***************************************************************************)

\* the tasks of room r that have not terminated
LiveTasks(r) == {t \in DOMAIN agent : agent[t].room_id = r /\ agent[t].pc # "done"}

\* the tasks of room r that have terminated
DoneTasks(r) == {t \in DOMAIN agent : agent[t].room_id = r /\ agent[t].pc = "done"}

\* the requests for room r that were answered
Handled(r) == {c \in DOMAIN req : req[c].body = r /\ req[c].status # "pending"}

Started(r) == {c \in Handled(r) : req[c].status = "started"}

\* the agent registered for room r is on its way out: its connection has
\* ended, or it is in its finally block
Draining(r) ==
    /\ r \in DOMAIN running_agents
    /\ LET a == agent[running_agents[r]]
       IN \/ a.pc = "finally"
          \/ a.pc = "sleep" /\ a.conn = CONN_DISCONNECTED

\* C1: every room has at most one room task that has not terminated; and
\* while no task of the room has terminated, the requests answered for the
\* room got exactly one 'started' and 'already_running' otherwise.
C1_OneAgentPerRoom ==
    \A r \in Rooms :
        /\ Cardinality(LiveTasks(r)) <= 1
        /\ (DoneTasks(r) = {} /\ Handled(r) # {}) =>
              /\ Cardinality(Started(r)) = 1
              /\ \A c \in Handled(r) \ Started(r) : req[c].status = "already_running"

\* two requests for one room were pending together, the later one was
\* answered first and started the agent, the earlier one found it running
C1_Witness ==
    /\ Len(req) >= 2
    /\ req[1].body = req[2].body
    /\ req[1].status = "already_running"
    /\ req[2].status = "started"
    /\ Cardinality(LiveTasks(req[1].body)) = 1

\* C2: a request for a room whose registered agent is on its way out is
\* answered 'started' and registers a new task.
C2_AttachWhileDrainingStarts ==
    [][\A c \in DOMAIN req :
          (/\ req[c].status = "pending"
           /\ req'[c].status # "pending"
           /\ Draining(req[c].body))
          => /\ req'[c].status = "started"
             /\ Len(agent') = Len(agent) + 1
             /\ running_agents'[req[c].body] = Len(agent')]_vars

\* C3: once the last participant has left an active agent's room (the
\* handler has scheduled the disconnect), the task terminates with its room
\* absent from the registry; and a room that is absent stays absent until a
\* request is answered 'started' for it.
C3_EmptyRoomTerminates ==
    /\ \A t \in Tasks :
          (t \in DOMAIN agent /\ agent[t].pc = "sleep" /\ agent[t].disc = "pending")
          ~> (/\ t \in DOMAIN agent
              /\ agent[t].pc = "done"
              /\ agent[t].conn = CONN_DISCONNECTED
              /\ agent[t].room_id \notin DOMAIN running_agents)
    /\ [][\A r \in Rooms :
             (r \notin DOMAIN running_agents /\ r \in DOMAIN running_agents')
             => \E c \in DOMAIN req :
                   /\ req[c].body = r
                   /\ req[c].status = "pending"
                   /\ req'[c].status = "started"]_vars

\* an agent whose room emptied has terminated, after the disconnect the
\* handler scheduled, and its room is not registered
C3_Witness ==
    \E t \in DOMAIN agent :
        /\ agent[t].pc = "done"
        /\ agent[t].disc = "done"
        /\ agent[t].room_id \notin DOMAIN running_agents

QueueMaxSize == 0

\* asyncio.Queue.full, mutated: a queue of one element
FullAtOne(q) == Len(q) >= 1

\* asyncio.Queue.full for the queue of line 277: put suspends only when full
Full(q) == QueueMaxSize > 0 /\ Len(q) >= QueueMaxSize

\* lines 258-259, mutated: only the first queue is served
PublishTargetsFirstOnly(tq, room_id) ==
    IF room_id \in DOMAIN tq THEN <<Head(tq[room_id])>> ELSE <<>>

\* lines 258-259, mutated: the queues of every room are served
PublishTargetsAnyRoom(tq, room_id) ==
    IF DOMAIN tq = {} THEN <<>> ELSE tq[CHOOSE r \in DOMAIN tq : TRUE]

\* lines 258-259: the queues the message is put to, in order
PublishTargets(tq, room_id) ==
    IF room_id \in DOMAIN tq THEN tq[room_id] ELSE <<>>

\* line 260, mutated: the message is put in front of the waiting ones
QueuePutFront(q, msg) == <<msg>> \o q

\* line 260: q.put(msg) on a queue that is not full: asyncio.Queue is first
\* in, first out
QueuePut(q, msg) == Append(q, msg)

\* lines 259-260: put msg to each target in turn; the loop stops at a put
\* that suspends (blocked), leaving the later targets unserved
RECURSIVE PutAll(_, _, _)
PutAll(subs, targets, msg) ==
    IF targets = <<>> THEN [sub |-> subs, blocked |-> FALSE]
    ELSE IF Full(subs[Head(targets)].q) THEN [sub |-> subs, blocked |-> TRUE]
    ELSE PutAll([subs EXCEPT ![Head(targets)].q = QueuePut(@, msg)],
                Tail(targets), msg)

\* lines 230-232, mutated: the event type is not looked at
ShouldPublishAnyType(e) == Truthy(e.text)

\* lines 230-232: a final transcript whose text is not empty
ShouldPublish(e) == e.type = FINAL_TRANSCRIPT /\ Truthy(e.text)

\* lines 247-253: the message; the clock read at line 245 is modelled by the
\* number of the message, which grows with every message built
Message(room_id, u, text, timestamp) ==
    [roomId |-> room_id,
     timestamp |-> timestamp,
     participantIdentity |-> Participant(u).identity,
     participantName |-> ResolveName(Participant(u)),
     text |-> text]

\* lines 278-280: register queue s for roomId
Subscribe(tq, roomId, s) ==
    DictSet(tq, roomId, Append(IF roomId \in DOMAIN tq THEN tq[roomId] ELSE <<>>, s))

\* lines 295-298, mutated: the emptied list is kept
UnsubscribeKeepEmpty(tq, roomId, s) ==
    IF roomId \notin DOMAIN tq THEN [tq |-> tq, err |-> FALSE]
    ELSE IF s \notin Range(tq[roomId]) THEN [tq |-> tq, err |-> TRUE]
    ELSE [tq |-> DictSet(tq, roomId, ListRemove(tq[roomId], s)), err |-> FALSE]

\* lines 295-298: remove queue s from the list of roomId and delete the
\* emptied list; list.remove raises ValueError (err) when s is not in it
Unsubscribe(tq, roomId, s) ==
    IF roomId \notin DOMAIN tq THEN [tq |-> tq, err |-> FALSE]
    ELSE IF s \notin Range(tq[roomId]) THEN [tq |-> tq, err |-> TRUE]
    ELSE LET rest == ListRemove(tq[roomId], s)
         IN [tq |-> IF rest = <<>> THEN DictDel(tq, roomId)
                    ELSE DictSet(tq, roomId, rest),
             err |-> FALSE]

\* lines 276-289: the generator of a GET /transcript-stream request, waiting
\* in q.get (line 289) for its first message
NewSub(roomId) ==
    [roomId |-> roomId, pc |-> "wait", q |-> <<>>, got |-> <<>>, gone |-> FALSE]

\* line 217-218: handle_audio_track is called for a track of participant u
HandleAudioTrack(room_id, u) ==
    /\ Len(tr) < MaxTracks
    /\ tr' = Append(tr, NewTrack(room_id, u, NoTask))
    /\ UNCHANGED <<running_agents, agent, req, transcript_queues, sub, log, event>>

\* an exception leaves handle_audio_track, mutated: the tracks of the room
\* end together, as tasks of one group would
DrainRaisesRoom(trs, k) ==
    [i \in DOMAIN trs |->
        IF trs[i].room_id = trs[k].room_id /\ trs[i].pc = "drain"
        THEN [trs[i] EXCEPT !.pc = "failed"]
        ELSE trs[i]]

\* line 229: an exception leaves handle_audio_track: the task created at
\* line 188 or 194 ends with it, nobody awaits that task
DrainRaises(trs, k) == [trs EXCEPT ![k].pc = "failed"]

\* lines 229-260: the STT stream yields an event and the body of the loop
\* runs; a put to a queue that is not full does not suspend
SttEvent(k, type, text) ==
    /\ k \in DOMAIN tr
    /\ tr[k].pc = "drain"
    /\ event' = [track |-> k, type |-> type, text |-> text]
    /\ LET msg == Message(tr[k].room_id, tr[k].participant, text, Len(log) + 1)
           put == PutAll(sub, PublishTargets(transcript_queues, tr[k].room_id), msg)
       IN IF ShouldPublish(event') /\ Resolve(Participant(tr[k].participant)).raised
          THEN /\ tr' = DrainRaises(tr, k)
               /\ UNCHANGED <<log, sub>>
          ELSE IF ShouldPublish(event')
          THEN /\ Len(log) < MaxEvents
               /\ log' = Append(log, msg)
               /\ sub' = put.sub
               /\ tr' = [tr EXCEPT ![k].pc = IF put.blocked THEN "put" ELSE "drain"]
          ELSE UNCHANGED <<log, sub, tr>>
    /\ UNCHANGED <<running_agents, agent, req, transcript_queues>>

\* lines 276-289: a viewer opens the stream; the generator registers its
\* queue, finds the viewer connected and waits for the queue
Open(roomId) ==
    /\ Len(sub) < MaxSubs
    /\ sub' = Append(sub, NewSub(roomId))
    /\ transcript_queues' = Subscribe(transcript_queues, roomId, Len(sub) + 1)
    /\ UNCHANGED <<running_agents, agent, req, tr, log, event>>

\* lines 294-298: the finally block; the generator and its queue are gone
Cleanup(subs, s) ==
    /\ transcript_queues' = Unsubscribe(transcript_queues, subs[s].roomId, s).tq
    /\ sub' = [subs EXCEPT ![s].pc = "closed", ![s].q = <<>>]

\* lines 284-285, mutated: the viewer is never found disconnected
IsDisconnectedNever(subs, s) ==
    /\ sub' = subs
    /\ UNCHANGED transcript_queues

\* lines 284-285: request.is_disconnected after a message or a keepalive was
\* sent: the loop breaks into the finally block, or waits for the queue again
IsDisconnected(subs, s) ==
    IF subs[s].gone
    THEN Cleanup(subs, s)
    ELSE /\ sub' = subs
         /\ UNCHANGED transcript_queues

\* lines 289-290, 284-285: q.get returns, the data is sent to the viewer and
\* the loop goes round
Get(s) ==
    /\ s \in DOMAIN sub
    /\ sub[s].pc = "wait"
    /\ sub[s].q # <<>>
    /\ IsDisconnected([sub EXCEPT ![s].q = Tail(@),
                                  ![s].got = Append(@, Head(sub[s].q))], s)
    /\ UNCHANGED <<running_agents, agent, req, tr, log, event>>

\* lines 289-293, 284-285: nothing arrives for 15 s, a keepalive is sent and
\* the loop goes round
Timeout(s) ==
    /\ s \in DOMAIN sub
    /\ sub[s].pc = "wait"
    /\ sub[s].q = <<>>
    /\ IsDisconnected(sub, s)
    /\ UNCHANGED <<running_agents, agent, req, tr, log, event>>

\* the viewer closes its connection
ClientDisconnect(s) ==
    /\ s \in DOMAIN sub
    /\ sub[s].pc # "closed"
    /\ ~sub[s].gone
    /\ sub' = [sub EXCEPT ![s].gone = TRUE]
    /\ UNCHANGED <<running_agents, agent, req, tr, transcript_queues, log, event>>

\* lines 282-298: the server closes the generator of a viewer that is gone:
\* the exception raised at its suspension point runs the finally block
Cancel(s) ==
    /\ s \in DOMAIN sub
    /\ sub[s].pc = "wait"
    /\ sub[s].gone
    /\ Cleanup(sub, s)
    /\ UNCHANGED <<running_agents, agent, req, tr, log, event>>

(***************************************************************************)
(* The two loops of a track transcriber: feed_audio (lines 220-227) and    *)
(* the loop over the STT events (line 229).                                *)
(***************************************************************************)

\* line 224: stream.push_frame(frame.frame)
PushFrame(calls, f) == Append(calls, f)

\* line 225, mutated: the end of the input is not signalled
EndInputForgotten(calls) == calls

\* line 225: stream.end_input()
EndInput(calls) == Append(calls, END_INPUT)

\* lines 223-227: an exception leaves feed_audio: the task created at line
\* 227 ends with it, nobody awaits that task
FeedRaises(trs, k) == [trs EXCEPT ![k].feed = "failed"]

\* lines 223-224: the AudioStream yields frame f and the loop pushes it
AudioFrame(k, f) ==
    /\ k \in DOMAIN tr
    /\ tr[k].feed = "feed"
    /\ Len(tr[k].audio) < MaxFrames
    /\ tr' = [tr EXCEPT ![k].audio = Append(@, f),
                        ![k].calls = PushFrame(@, f)]
    /\ UNCHANGED <<running_agents, agent, req, transcript_queues, sub, log, event>>

\* lines 223, 225: the AudioStream is exhausted (the track ended); the loop
\* ends, feed_audio signals the end of the input and returns
AudioEnd(k) ==
    /\ k \in DOMAIN tr
    /\ tr[k].feed = "feed"
    /\ tr' = [tr EXCEPT ![k].feed = "done", ![k].calls = EndInput(@)]
    /\ UNCHANGED <<running_agents, agent, req, transcript_queues, sub, log, event>>

\* lines 222-225: the AudioStream raises, or a call on the STT stream does
FeedFail(k) ==
    /\ k \in DOMAIN tr
    /\ tr[k].feed = "feed"
    /\ tr' = FeedRaises(tr, k)
    /\ UNCHANGED <<running_agents, agent, req, transcript_queues, sub, log, event>>

\* line 229: the STT stream raises in the loop of handle_audio_track
SttFail(k) ==
    /\ k \in DOMAIN tr
    /\ tr[k].pc = "drain"
    /\ tr' = DrainRaises(tr, k)
    /\ UNCHANGED <<running_agents, agent, req, transcript_queues, sub, log, event>>

\* line 229: the STT stream, whose input was ended, is exhausted; the loop
\* ends and handle_audio_track returns
SttClosed(k) ==
    /\ k \in DOMAIN tr
    /\ tr[k].pc = "drain"
    /\ END_INPUT \in Range(tr[k].calls)
    /\ tr' = [tr EXCEPT ![k].pc = "done"]
    /\ UNCHANGED <<running_agents, agent, req, transcript_queues, sub, log, event>>

\* one track transcriber at work: its two loops, with their failures
NextFeed ==
    \/ \E r \in Rooms, u \in Idents : HandleAudioTrack(r, u)
    \/ \E k \in 1..MaxTracks, f \in Frames : AudioFrame(k, f)
    \/ \E k \in 1..MaxTracks : AudioEnd(k)
    \/ \E k \in 1..MaxTracks : FeedFail(k)
    \/ \E k \in 1..MaxTracks : SttFail(k)
    \/ \E k \in 1..MaxTracks : SttClosed(k)
    \/ \E k \in 1..MaxTracks, text \in Texts \ {""} :
          SttEvent(k, FINAL_TRANSCRIPT, text)

SpecFeed == Init /\ [][NextFeed]_vars

\* every track ends, and an STT stream whose input was ended closes
LiveFeedSpec ==
    /\ SpecFeed
    /\ \A k \in 1..MaxTracks : WF_vars(AudioEnd(k))
    /\ \A k \in 1..MaxTracks : WF_vars(SttClosed(k))

\* the tracks a room task can have spawned
RoomTracks == 1..MaxRoomTracks

\* the agent of one room with the track transcribers it spawns: tracks
\* fail and end while the agent and their siblings are at work
NextTrack ==
    \/ Receive("r1")
    \/ \E c \in 1..MaxReqs : AttachTranscriber(c)
    \/ \E t \in Tasks, present \in SUBSET Idents, audio \in SUBSET Idents :
          RoomConnect(t, present, audio)
    \/ \E t \in Tasks, u \in Idents : TrackSubscribed(t, u)
    \/ \E k \in RoomTracks : AudioEnd(k)
    \/ \E k \in RoomTracks : SttClosed(k)
    \/ \E k \in RoomTracks : FeedFail(k)
    \/ \E k \in RoomTracks : SttFail(k)
    \/ \E k \in RoomTracks, text \in Texts \ {""} :
          SttEvent(k, FINAL_TRANSCRIPT, text)

SpecTrack == Init /\ [][NextTrack]_vars

\* the same, and the agent ends while its tracks are at work
NextDrain ==
    \/ Receive("r1")
    \/ \E c \in 1..MaxReqs : AttachTranscriber(c)
    \/ \E t \in Tasks, present \in SUBSET Idents, audio \in SUBSET Idents :
          RoomConnect(t, present, audio)
    \/ \E t \in Tasks, u \in Idents : TrackSubscribed(t, u)
    \/ \E k \in RoomTracks : AudioEnd(k)
    \/ \E k \in RoomTracks : SttClosed(k)
    \/ \E k \in RoomTracks : FeedFail(k)
    \/ \E k \in RoomTracks : SttFail(k)
    \/ \E k \in RoomTracks, text \in Texts \ {""} :
          SttEvent(k, FINAL_TRANSCRIPT, text)
    \/ \E t \in Tasks : ConnectionLost(t, CONN_DISCONNECTED)
    \/ \E t \in Tasks : KeepAliveExit(t)
    \/ \E t \in Tasks : Finally(t)

SpecDrain == Init /\ [][NextDrain]_vars

\* the event loop runs every task that is ready; every track ends, and an
\* STT stream whose input was ended closes
LiveDrainSpec ==
    /\ SpecDrain
    /\ \A t \in Tasks : WF_vars(KeepAliveExit(t))
    /\ \A t \in Tasks : WF_vars(Finally(t))
    /\ \A k \in RoomTracks : WF_vars(AudioEnd(k))
    /\ \A k \in RoomTracks : WF_vars(SttClosed(k))

\* the track transcribers of participants of every kind of name and
\* metadata, yielding final transcripts with text
NextName ==
    \/ \E r \in Rooms, u \in Range(ParticipantIds) : HandleAudioTrack(r, u)
    \/ \E k \in 1..MaxTracks, text \in Texts \ {""} :
          SttEvent(k, FINAL_TRANSCRIPT, text)

SpecName == Init /\ [][NextName]_vars

\* the track transcribers with every kind of STT event, and viewers
NextStt ==
    \/ \E r \in Rooms, u \in Idents : HandleAudioTrack(r, u)
    \/ \E k \in 1..MaxTracks, type \in EventTypes, text \in Texts :
          SttEvent(k, type, text)
    \/ \E r \in Rooms : Open(r)
    \/ \E s \in 1..MaxSubs : Get(s)

SpecStt == Init /\ [][NextStt]_vars

\* the bus: viewers come and go while the tracks yield final transcripts
\* with text (the other events leave the bus alone)
NextBus ==
    \/ \E r \in Rooms, u \in Idents : HandleAudioTrack(r, u)
    \/ \E k \in 1..MaxTracks, text \in Texts \ {""} :
          SttEvent(k, FINAL_TRANSCRIPT, text)
    \/ \E r \in Rooms : Open(r)
    \/ \E s \in 1..MaxSubs : Get(s)
    \/ \E s \in 1..MaxSubs : Timeout(s)
    \/ \E s \in 1..MaxSubs : ClientDisconnect(s)
    \/ \E s \in 1..MaxSubs : Cancel(s)

SpecBus == Init /\ [][NextBus]_vars

\* the viewers of the rooms, with one participant speaking in each room
NextViewer ==
    \/ \E r \in Rooms : HandleAudioTrack(r, "u1")
    \/ \E k \in 1..MaxTracks, text \in Texts \ {""} :
          SttEvent(k, FINAL_TRANSCRIPT, text)
    \/ \E r \in Rooms : Open(r)
    \/ \E s \in 1..MaxSubs : Get(s)
    \/ \E s \in 1..MaxSubs : Timeout(s)
    \/ \E s \in 1..MaxSubs : ClientDisconnect(s)
    \/ \E s \in 1..MaxSubs : Cancel(s)

SpecViewer == Init /\ [][NextViewer]_vars

\* the event loop runs every generator that is ready: a queue that holds a
\* message is read, a wait of 15 s on an empty queue times out
LiveViewerSpec ==
    /\ SpecViewer
    /\ \A s \in 1..MaxSubs : WF_vars(Get(s))
    /\ \A s \in 1..MaxSubs : WF_vars(Timeout(s))

(***************************************************************************)
(* Claims about the transcript bus and the track transcriber.              *)
(***************************************************************************)

\* the queues registered for room r
Registered(r) ==
    IF r \in DOMAIN transcript_queues THEN Range(transcript_queues[r]) ELSE {}

\* everything that was put to the queue of s: what the viewer was sent,
\* then what still waits in the queue
Received(subs, s) == subs[s].got \o subs[s].q

\* this step logs (and broadcasts) a message
Publishes == Len(log') = Len(log) + 1

\* the message this step logs
Published == log'[Len(log')]

\* C5: a publication puts the message once to the queue of every
\* subscriber registered for its room at that moment, and no subscriber
\* ever holds a message twice.
C5_PublishReachesEveryRegistered ==
    /\ [][Publishes =>
             \A s \in Registered(Published.roomId) :
                 /\ sub'[s].q = Append(sub[s].q, Published)
                 /\ Count(Published, Received(sub', s)) = 1]_vars
    /\ [](\A s \in DOMAIN sub : \A i \in DOMAIN log :
             Count(log[i], Received(sub, s)) <= 1)

\* two subscribers of one room hold the same message, one of them has
\* already sent it to its viewer
C5_Witness ==
    \E s1, s2 \in DOMAIN sub :
        /\ s1 # s2
        /\ {s1, s2} \subseteq Registered(sub[s1].roomId)
        /\ Len(log) >= 1
        /\ log[1] \in Range(sub[s1].got)
        /\ log[1] \in Range(sub[s2].q)

\* C6: a publication leaves transcript_queues and every queue not
\* registered for its room as they are (with no subscriber of the room the
\* message is dropped); a new subscriber starts with an empty queue, and a
\* queue only ever gains the message being published.
C6_NoSubscriberNoReplay ==
    [][/\ Publishes =>
             /\ transcript_queues' = transcript_queues
             /\ \A s \in DOMAIN sub \ Registered(Published.roomId) :
                   sub'[s] = sub[s]
       /\ Len(sub') > Len(sub) =>
             /\ Received(sub', Len(sub')) = <<>>
             /\ \A s \in DOMAIN sub : sub'[s] = sub[s]
       /\ \A s \in DOMAIN sub :
             \A m \in Range(Received(sub', s)) :
                 \/ m \in Range(Received(sub, s))
                 \/ Publishes /\ m = Published]_vars

\* a message was published for a room and nobody holds it, and the room
\* now has a subscriber
C6_Witness ==
    /\ Len(log) >= 1
    /\ \A s \in DOMAIN sub : log[1] \notin Range(Received(sub, s))
    /\ \E s \in Registered(log[1].roomId) : sub[s].pc = "wait"

\* C7: no track transcriber is ever suspended in a put, and a publication
\* made while queues of the room hold unread messages still reaches every
\* subscriber of the room.
C7_StalledSubscriberDoesNotBlock ==
    /\ [](\A k \in DOMAIN tr : tr[k].pc # "put")
    /\ [][(/\ Publishes
           /\ \E s \in Registered(Published.roomId) : sub[s].q # <<>>)
          => \A s \in Registered(Published.roomId) :
                 /\ Len(sub'[s].q) = Len(sub[s].q) + 1
                 /\ sub'[s].q[Len(sub'[s].q)] = Published]_vars

\* one subscriber has read nothing and its viewer is gone, the other has read
\* both messages
C7_Witness ==
    \E s1, s2 \in DOMAIN sub :
        /\ s1 # s2
        /\ {s1, s2} \subseteq Registered(sub[s1].roomId)
        /\ sub[s1].gone
        /\ sub[s1].got = <<>>
        /\ Len(sub[s1].q) = 2
        /\ sub[s2].got = sub[s1].q

\* C8: every room of transcript_queues has a list that is not empty, of
\* distinct generators of that room whose finally block has not run; and
\* every such generator is in the list of its room.
C8_NoEmptyRoomEntry ==
    /\ \A r \in DOMAIN transcript_queues :
          /\ transcript_queues[r] # <<>>
          /\ \A i \in DOMAIN transcript_queues[r] :
                LET s == transcript_queues[r][i]
                IN /\ s \in DOMAIN sub
                   /\ sub[s].pc # "closed"
                   /\ sub[s].roomId = r
                   /\ Count(s, transcript_queues[r]) = 1
    /\ \A s \in DOMAIN sub :
          sub[s].pc # "closed" => s \in Registered(sub[s].roomId)

\* the last subscriber of a room has unsubscribed and the room has no entry,
\* while the other room keeps its subscriber
C8_Witness ==
    \E s1, s2 \in DOMAIN sub :
        /\ sub[s1].pc = "closed"
        /\ sub[s1].roomId \notin DOMAIN transcript_queues
        /\ sub[s2].pc = "wait"
        /\ sub[s2].roomId \in DOMAIN transcript_queues

\* C9: the unsubscribe step applied a second time for a registered queue
\* raises nothing and changes nothing.
C9_UnsubscribeIdempotent ==
    \A r \in DOMAIN transcript_queues :
        \A s \in Range(transcript_queues[r]) :
            LET once == Unsubscribe(transcript_queues, r, s)
                twice == Unsubscribe(once.tq, r, s)
            IN /\ ~once.err
               /\ ~twice.err
               /\ twice.tq = once.tq

\* C10: a step of the loop over the STT events logs and broadcasts exactly
\* one message, carrying the event's text, the track's room and the
\* participant's identity, when the event is a final transcript with text;
\* for any other event it logs nothing and touches no queue.
C10_OnlyFinalTextPublishes ==
    [][(event' # event \/ log' # log) =>
          LET k == event'.track
          IN /\ k \in DOMAIN tr
             /\ IF event'.type = FINAL_TRANSCRIPT /\ event'.text # ""
                THEN /\ Publishes
                     /\ Published.text = event'.text
                     /\ Published.roomId = tr[k].room_id
                     /\ Published.participantIdentity = tr[k].participant
                     /\ \A s \in Registered(tr[k].room_id) :
                           sub'[s].q = Append(sub[s].q, Published)
                ELSE /\ log' = log
                     /\ sub' = sub]_vars

\* after a message was published and delivered, an interim event with text
\* was consumed and nothing more was published
C10_Witness ==
    /\ Len(log) = 1
    /\ event.type = INTERIM_TRANSCRIPT
    /\ event.text # ""
    /\ \E s \in DOMAIN sub : Received(sub, s) = log


(***************************************************************************)
(* Claims about the two loops of a track transcriber.                      *)
(***************************************************************************)

\* the frames pushed to the STT stream of track k, in order
Pushed(k) == SelectSeq(tr[k].calls, LAMBDA c : c # END_INPUT)

\* C15: the frames pushed to the STT stream are the frames the track has
\* delivered, in order; the end of the input is signalled at most once, as
\* the last call, and exactly once when the feed loop has ended normally.
C15_FeedInOrderThenEndOnce ==
    \A k \in DOMAIN tr :
        LET calls == tr[k].calls IN
        /\ Pushed(k) = tr[k].audio
        /\ Count(END_INPUT, calls) <= 1
        /\ END_INPUT \in Range(calls) =>
              /\ calls[Len(calls)] = END_INPUT
              /\ tr[k].feed = "done"
        /\ tr[k].feed = "done" => Count(END_INPUT, calls) = 1

\* a track delivered two frames and ended; both were pushed, then the end of
\* the input was signalled
C15_Witness ==
    \E k \in DOMAIN tr :
        /\ tr[k].feed = "done"
        /\ tr[k].audio = <<"f2", "f1">>
        /\ tr[k].calls = <<"f2", "f1", END_INPUT>>

\* C16: once one of the two loops of a track transcriber has raised, both
\* loops stop.
C16_FailedTrackTerminates ==
    \A k \in 1..MaxTracks :
        (k \in DOMAIN tr /\ (tr[k].feed = "failed" \/ tr[k].pc = "failed"))
        ~> (k \in DOMAIN tr /\ tr[k].feed # "feed" /\ tr[k].pc # "drain")


(***************************************************************************)
(* Claims about the track transcribers of a room agent.                    *)
(***************************************************************************)

\* one of the loops of track k raises in this step
Fails(k) ==
    \/ tr[k].feed # "failed" /\ tr'[k].feed = "failed"
    \/ tr[k].pc # "failed" /\ tr'[k].pc = "failed"

\* one of the loops of track k is at work
Running(k) == tr[k].feed = "feed" \/ tr[k].pc = "drain"

\* the agent registered for room r is connected and in its keep-alive loop
Active(r) ==
    /\ r \in DOMAIN running_agents
    /\ agent[running_agents[r]].pc = "sleep"
    /\ agent[running_agents[r]].conn = CONN_CONNECTED

\* C11: a step in which a loop of one track raises leaves every other
\* track, every room task, the registry and the bus as they are, and the
\* agent of the room stays active; and a track whose drain loop is at work
\* can publish, whatever has happened to its siblings.
C11_TrackFailureIsIsolated ==
    /\ [][\A k \in DOMAIN tr :
             Fails(k) =>
                /\ \A j \in DOMAIN tr \ {k} : tr'[j] = tr[j]
                /\ UNCHANGED <<agent, running_agents, req>>
                /\ UNCHANGED <<transcript_queues, sub, log>>
                /\ Active(tr[k].room_id)
                /\ Active(tr[k].room_id)']_vars
    /\ [](\A j \in DOMAIN tr :
             (tr[j].pc = "drain" /\ Len(log) < MaxEvents)
             => ENABLED SttEvent(j, FINAL_TRANSCRIPT, "hello"))

\* both loops of one track have raised; its sibling, of the same room, has
\* published and is still at work, and the agent of the room is active
C11_Witness ==
    \E k, j \in DOMAIN tr :
        /\ k # j
        /\ tr[k].room_id = tr[j].room_id
        /\ tr[k].feed = "failed" /\ tr[k].pc = "failed"
        /\ tr[j].feed = "feed" /\ tr[j].pc = "drain"
        /\ event.track = j
        /\ Len(log) >= 1
        /\ log[Len(log)].participantIdentity = tr[j].participant
        /\ tr[k].participant # tr[j].participant
        /\ Active(tr[k].room_id)

\* C12: once a room task has terminated, the track transcribers it spawned
\* stop: none of their loops stays at work.
C12_TracksOfTerminatedAgentExit ==
    \A t \in Tasks :
        (t \in DOMAIN agent /\ agent[t].pc = "done")
        ~> (/\ t \in DOMAIN agent
            /\ \A k \in DOMAIN tr :
                  tr[k].stt = t => ~Running(k))


(***************************************************************************)
(* Claims about the name of a participant.                                 *)
(***************************************************************************)

\* the metadata that parse as a record with the field displayName, and the
\* value of the field
WithDisplayName == {MetaAnn, MetaEmptyName, MetaNullName}

DisplayNameOf(m) ==
    IF m = MetaAnn THEN "Ann" ELSE IF m = MetaEmptyName THEN "" ELSE None

\* the name by the order of resolution: displayName, hint, identity
Expected(p) ==
    IF p.metadata \in WithDisplayName THEN DisplayNameOf(p.metadata)
    ELSE IF p.name \notin {None, ""} THEN p.name
    ELSE p.identity

\* C13: every message carries the name the order of resolution gives for
\* its participant, whatever the participant's name and metadata are; and
\* no handle_audio_track task is ended by an exception of the resolution.
C13_NameResolution ==
    /\ \A i \in DOMAIN log :
          log[i].participantName = Expected(Participant(log[i].participantIdentity))
    /\ \A k \in DOMAIN tr : tr[k].pc # "failed"
    /\ \A u \in Range(ParticipantIds) \cup Idents :
          /\ ~Resolve(Participant(u)).raised
          /\ ResolveName(Participant(u)) = Expected(Participant(u))

\* a message of a participant without a hint, whose metadata is a JSON
\* string that holds the word displayName, carries the identity
C13_Witness ==
    \E i \in DOMAIN log :
        LET p == Participant(log[i].participantIdentity)
        IN /\ p.name = ""
           /\ p.metadata = MetaString
           /\ log[i].participantName = p.identity


(***************************************************************************)
(* More claims about the registry and the room task.                       *)
(***************************************************************************)

\* the bodies without a roomId, or with an empty one
NoRoomId == {None, ""}

\* C14: a request without a roomId, or with an empty one, is answered
\* 'roomId required' in a step that leaves the registry and the room tasks
\* as they are; no room task and no entry ever exists for such a roomId,
\* and no other request gets that answer.
C14_MissingRoomIdRejected ==
    /\ [][\A c \in DOMAIN req :
             (/\ req[c].status = "pending"
              /\ req'[c].status # "pending"
              /\ req[c].body \in NoRoomId)
             => /\ req'[c].status = "roomId required"
                /\ UNCHANGED <<running_agents, agent>>]_vars
    /\ [](/\ DOMAIN running_agents \cap NoRoomId = {}
          /\ \A t \in DOMAIN agent : agent[t].room_id \notin NoRoomId
          /\ \A c \in DOMAIN req :
                req[c].status = "roomId required" => req[c].body \in NoRoomId)

\* a request without roomId and a request with an empty roomId were both
\* rejected, and there is no room task
C14_Witness ==
    /\ Len(req) = 2
    /\ req[1].body = None /\ req[1].status = "roomId required"
    /\ req[2].body = "" /\ req[2].status = "roomId required"
    /\ agent = <<>>
    /\ running_agents = <<>>


\* C18: an entry of the registry names a room task of its room that has
\* not terminated; it is never replaced by another task; and it is deleted
\* only by the task it names, in the step in which that task terminates.
C18_FinallyDeletesOwnEntry ==
    /\ [](\A r \in DOMAIN running_agents :
             /\ running_agents[r] \in DOMAIN agent
             /\ agent[running_agents[r]].room_id = r
             /\ agent[running_agents[r]].pc # "done")
    /\ [][\A r \in DOMAIN running_agents :
             /\ r \in DOMAIN running_agents' =>
                   running_agents'[r] = running_agents[r]
             /\ r \notin DOMAIN running_agents' =>
                   /\ agent[running_agents[r]].pc = "finally"
                   /\ agent'[running_agents[r]].pc = "done"]_vars

\* a room task has terminated and deleted its entry, and the task started
\* for the same room afterwards is registered and in its finally block
C18_Witness ==
    \E t1, t2 \in DOMAIN agent :
        /\ t1 < t2
        /\ agent[t1].room_id = agent[t2].room_id
        /\ agent[t1].pc = "done"
        /\ agent[t2].pc = "finally"
        /\ running_agents[agent[t2].room_id] = t2

\* C20: the program disconnects a room only after a participant_disconnected
\* event that left the room without participants; and a room task in its
\* keep-alive loop stays there, registered, in every step that leaves its
\* room connected.
C20_OnlyEmptyRoomEventTerminates ==
    /\ [][\A t \in DOMAIN agent :
             /\ (agent[t].disc # "pending" /\ agent'[t].disc = "pending") =>
                   /\ agent[t].conn = CONN_CONNECTED
                   /\ agent[t].parts # {}
                   /\ agent'[t].parts = {}
             /\ (agent[t].disc # "done" /\ agent'[t].disc = "done") =>
                   agent[t].disc = "pending"
             /\ (/\ agent[t].pc = "sleep"
                 /\ agent[t].conn = CONN_CONNECTED
                 /\ agent'[t].conn = CONN_CONNECTED) =>
                   /\ agent'[t].pc = "sleep"
                   /\ agent[t].room_id \in DOMAIN running_agents'
                   /\ running_agents'[agent[t].room_id] = t]_vars
    /\ [](\A t \in DOMAIN agent :
             (agent[t].pc = "sleep" /\ agent[t].conn = CONN_CONNECTED) =>
                /\ agent[t].room_id \in DOMAIN running_agents
                /\ running_agents[agent[t].room_id] = t)

\* an agent is in its keep-alive loop, connected and registered, in a room
\* that never had a participant, while the agent of the other room, whose
\* last participant left, was disconnected and has terminated
C20_Witness ==
    \E t1, t2 \in DOMAIN agent :
        /\ agent[t1].pc = "sleep"
        /\ agent[t1].hooked
        /\ agent[t1].conn = CONN_CONNECTED
        /\ agent[t1].parts = {}
        /\ agent[t1].disc = "none"
        /\ running_agents[agent[t1].room_id] = t1
        /\ agent[t2].pc = "done"
        /\ agent[t2].disc = "done"

(***************************************************************************)
(* More claims about the transcript bus.                                   *)
(***************************************************************************)

\* C17: a subscriber whose viewer has closed the connection is removed from
\* the list of its room, at the latest in the step that sends it the next
\* message or keepalive; and a subscriber is removed only when its viewer
\* is gone, so a timeout alone removes nothing.
C17_GoneViewerIsRemoved ==
    /\ \A s \in 1..MaxSubs :
          (s \in DOMAIN sub /\ sub[s].gone)
          ~> (/\ s \in DOMAIN sub
              /\ sub[s].pc = "closed"
              /\ s \notin Registered(sub[s].roomId))
    /\ [][\A s \in DOMAIN sub :
             /\ (sub[s].gone /\ sub'[s].got # sub[s].got) =>
                   /\ sub'[s].pc = "closed"
                   /\ s \notin Registered(sub[s].roomId)'
             /\ (s \in Registered(sub[s].roomId)
                 /\ s \notin Registered(sub[s].roomId)') => sub[s].gone
             /\ (Timeout(s) /\ ~sub[s].gone) =>
                   UNCHANGED <<transcript_queues, sub>>]_vars

\* one subscriber was removed after its viewer had gone, while holding an
\* unread message; the other subscriber of the room, whose viewer is
\* connected, has read it and is still registered
C17_Witness ==
    \E s1, s2 \in DOMAIN sub :
        /\ sub[s1].roomId = sub[s2].roomId
        /\ sub[s1].gone /\ sub[s1].pc = "closed"
        /\ s1 \notin Registered(sub[s1].roomId)
        /\ ~sub[s2].gone /\ sub[s2].pc = "wait"
        /\ Len(sub[s2].got) = 1 /\ sub[s2].q = <<>>
        /\ s2 \in Registered(sub[s2].roomId)


\* C19: what a subscriber has been given (sent to its viewer, then waiting
\* in its queue) are messages published for its room, each once, in the
\* order of their publication; so two subscribers that hold the same two
\* messages hold them in the same order.
C19_PublicationOrder ==
    /\ \A i \in DOMAIN log : log[i].timestamp = i
    /\ \A s \in DOMAIN sub :
          LET rcv == Received(sub, s) IN
          /\ \A i \in DOMAIN rcv :
                /\ rcv[i] \in Range(log)
                /\ rcv[i].roomId = sub[s].roomId
          /\ \A i, j \in DOMAIN rcv :
                i < j => rcv[i].timestamp < rcv[j].timestamp

\* two messages were published for a room with two subscribers: one has
\* read both, the other has read the first and holds the second
C19_Witness ==
    \E s1, s2 \in DOMAIN sub :
        /\ Len(log) = 2
        /\ log[1].roomId = log[2].roomId
        /\ sub[s1].got = log
        /\ sub[s2].got = <<log[1]>>
        /\ sub[s2].q = <<log[2]>>

=============================================================================
